---- MODULE Spec2Model ----
(***************************************************************************)
(* A model of one session of the madn server: the figures of every player, *)
(* GamePlayer::move_figure / check_done, Game::check_move and the turn     *)
(* state machine statemachine::step.                                       *)
(***************************************************************************)
EXTENDS Integers, Sequences, FiniteSets, TLC

\* ---------------------------------------------------------------- bounds
NumPlayers == 2
MaxRolls == 1
MaxFigureArg == 4

\* ------------------------------------------------------ program constants
FieldLen == 40
HouseLen == 4
PlayerOffset == 10
DieMax == 6
LastAttempt == 2
FigureCount == 4

Players == 0 .. (NumPlayers - 1)
FigIdx == 0 .. (FigureCount - 1)
Dice == 1 .. DieMax

\* ------------------------------------------------------------ Figure enum
InStart == [k |-> "InStart", v |-> 0]

OnField(moved) == [k |-> "OnField", v |-> moved]

InHouse(pos) == [k |-> "InHouse", v |-> pos]

AllFigures == {InStart} \cup {OnField(m) : m \in 0 .. (FieldLen - 1)}
                \cup {InHouse(p) : p \in 0 .. (HouseLen - 1)}

\* ------------------------------------------------------------- GameState
StartTurn(attempt) == [tag |-> "StartTurn", n |-> attempt]

Rolled(value) == [tag |-> "Rolled", n |-> value]

MoveToNextTurn == [tag |-> "MoveToNextTurn", n |-> 0]

Done == [tag |-> "Done", n |-> 0]

WaitingForReconnect(prev_state) == [tag |-> "WaitingForReconnect", prev |-> prev_state]

\* ----------------------------------------------------------- GameResponse
Turn == [type |-> "Turn"]

RolledMsg(value, can_move) == [type |-> "Rolled", value |-> value, can_move |-> can_move]

StateMsg(figs) == [type |-> "State", players |-> figs]

PlayerDone(player) == [type |-> "PlayerDone", player |-> player]

GameDone(rank) == [type |-> "GameDone", ranking |-> rank]

IndicatePlayer(player, you) == [type |-> "IndicatePlayer", player |-> player, you |-> you]

VARIABLES
    figures,      \* players[p].figures : [Players -> [FigIdx -> Figure]]
    done,         \* players[p].done
    rejoin_code,  \* players[p].rejoin_code
    replaced,     \* the players whose send and recv the latest step assigned
    next_player,  \* game.next_player
    ranking,      \* game.ranking
    rolls,        \* number of values drawn from game.rng so far
    state,        \* the GameState handed to the next call of step
    status,       \* "running", "ended" (step returned None), "panicked"
    sent,         \* the sends attempted by the latest step, in order
    last          \* the latest call: which operation ran, with what result

vars == <<figures, done, rejoin_code, replaced, next_player, ranking,
          rolls, state, status, sent, last>>

\* ------------------------------------------------------------ GamePlayer
has_figures_in_start(figs) == \E i \in FigIdx : figs[i].k = "InStart"

has_figures_left(figs) == \E i \in FigIdx : figs[i].k # "InHouse"

\* has_figures_on_field matching Figure::InHouse alone
has_figures_on_field_house(figs) == \E i \in FigIdx : figs[i].k = "InHouse"

\* has_figures_on_field matching Figure::OnField alone
has_figures_on_field_only(figs) == \E i \in FigIdx : figs[i].k = "OnField"

has_figures_on_field(figs) == \E i \in FigIdx : figs[i].k \in {"OnField", "InHouse"}

\* has_moveable_figure comparing with the house length instead of the free
\* slots: `*pos < 4`
has_moveable_figure_anyhouse(figs) ==
    \/ \E i \in FigIdx : figs[i].k = "OnField"
    \/ \E i \in FigIdx : figs[i].k = "InHouse" /\ figs[i].v < HouseLen

has_moveable_figure(figs) ==
    LET figures_in_house == Cardinality({i \in FigIdx : figs[i].k = "InHouse"})
    IN \/ \E i \in FigIdx : figs[i].k = "OnField"
       \/ \E i \in FigIdx :
             figs[i].k = "InHouse" /\ figs[i].v < HouseLen - figures_in_house

\* n_state with the field bound off by one: `target <= 40`
n_state_offbyone(figure, amount) ==
    CASE figure.k = "InStart" -> InStart
      [] figure.k = "OnField" ->
            LET target == figure.v + amount IN
            IF target <= FieldLen THEN OnField(target)
            ELSE LET dif == target - FieldLen IN
                 IF dif < HouseLen THEN InHouse(dif) ELSE OnField(figure.v)
      [] figure.k = "InHouse" ->
            LET target == figure.v + amount IN
            IF target < HouseLen THEN InHouse(target) ELSE InHouse(figure.v)

\* n_state going round the field again instead of entering the house
n_state_wrap(figure, amount) ==
    CASE figure.k = "InStart" -> InStart
      [] figure.k = "OnField" -> OnField((figure.v + amount) % FieldLen)
      [] figure.k = "InHouse" ->
            LET target == figure.v + amount IN
            IF target < HouseLen THEN InHouse(target) ELSE InHouse(figure.v)

\* the n_state computed by move_figure for one figure
n_state(figure, amount) ==
    CASE figure.k = "InStart" -> InStart
      [] figure.k = "OnField" ->
            LET target == figure.v + amount IN
            IF target < FieldLen THEN OnField(target)
            ELSE LET dif == target - FieldLen IN
                 IF dif < HouseLen THEN InHouse(dif) ELSE OnField(figure.v)
      [] figure.k = "InHouse" ->
            LET target == figure.v + amount IN
            IF target < HouseLen THEN InHouse(target) ELSE InHouse(figure.v)

\* move_figure that only compares n_state with the moved figure itself
move_figure_nocollision(figs, index, amount) ==
    IF index \notin FigIdx THEN [ok |-> FALSE, figs |-> figs]
    ELSE LET n == n_state(figs[index], amount) IN
         IF figs[index] = n
         THEN [ok |-> FALSE, figs |-> figs]
         ELSE [ok |-> TRUE, figs |-> [figs EXCEPT ![index] = n]]

\* move_figure: ok = FALSE is the None return; figs is the array afterwards
move_figure(figs, index, amount) ==
    IF index \notin FigIdx THEN [ok |-> FALSE, figs |-> figs]
    ELSE LET n == n_state(figs[index], amount) IN
         IF \E i \in FigIdx : figs[i] = n
         THEN [ok |-> FALSE, figs |-> figs]
         ELSE [ok |-> TRUE, figs |-> [figs EXCEPT ![index] = n]]

\* check_done that returns at the first figure found InHouse
check_done_any(figs, flag) ==
    IF \A i \in FigIdx : figs[i].k # "InHouse"
    THEN [ret |-> FALSE, done |-> flag]
    ELSE [ret |-> TRUE, done |-> TRUE]

\* check_done without its `self.done = true`
check_done_noflag(figs, flag) ==
    IF \E i \in FigIdx : figs[i].k # "InHouse"
    THEN [ret |-> FALSE, done |-> flag]
    ELSE [ret |-> TRUE, done |-> flag]

\* check_done satisfied with three figures InHouse
check_done_three(figs, flag) ==
    IF Cardinality({i \in FigIdx : figs[i].k # "InHouse"}) > 1
    THEN [ret |-> FALSE, done |-> flag]
    ELSE [ret |-> TRUE, done |-> TRUE]

\* check_done: ret is the return value, done the flag afterwards
check_done(figs, flag) ==
    IF \E i \in FigIdx : figs[i].k # "InHouse"
    THEN [ret |-> FALSE, done |-> flag]
    ELSE [ret |-> TRUE, done |-> TRUE]

\* ------------------------------------------------------------------ Game
Cell(moved, player) == (moved + player * PlayerOffset) % FieldLen

\* check_move comparing the step counters without the per-player offset
check_move_nooffset(figs, player) ==
    LET player_figures == {figs[player][i].v :
                              i \in {j \in FigIdx : figs[player][j].k = "OnField"}}
    IN [p \in Players |->
          IF p = player THEN figs[p]
          ELSE [i \in FigIdx |->
                  IF figs[p][i].k = "OnField" /\ figs[p][i].v \in player_figures
                  THEN InStart
                  ELSE figs[p][i]]]

\* check_move resetting the figures of the moving player as well
check_move_self(figs, player) ==
    LET player_figures == {Cell(figs[player][i].v, player) :
                              i \in {j \in FigIdx : figs[player][j].k = "OnField"}}
    IN [p \in Players |->
          [i \in FigIdx |->
              IF figs[p][i].k = "OnField"
                 /\ Cell(figs[p][i].v, p) \in player_figures
              THEN InStart
              ELSE figs[p][i]]]

\* check_move that resets nothing
check_move_none(figs, player) == figs

check_move(figs, player) ==
    LET player_figures == {Cell(figs[player][i].v, player) :
                              i \in {j \in FigIdx : figs[player][j].k = "OnField"}}
    IN [p \in Players |->
          IF p = player THEN figs[p]
          ELSE [i \in FigIdx |->
                  IF figs[p][i].k = "OnField"
                     /\ Cell(figs[p][i].v, p) \in player_figures
                  THEN InStart
                  ELSE figs[p][i]]]

\* is_done with any() in place of all()
is_done_any(flags) == \E p \in Players : flags[p]

is_done(flags) == \A p \in Players : flags[p]

\* ------------------------------------------------------------- sending
\* A step is handed fc = [fail, after]: the sink of the player in fail (at
\* most one per step) rejects every send of the step but the first `after`.
\* log is the sequence of sends attempted so far.
FailsAt(log, to, fc) ==
    /\ to \in fc.fail
    /\ Cardinality({j \in 1 .. Len(log) : log[j].to = to}) >= fc.after

\* send the messages of list in order, stopping at the first failure
\* (the `?`, unwrap or early return after every send_resp)
RECURSIVE SendEach(_, _, _)
SendEach(log, list, fc) ==
    IF list = <<>> THEN log
    ELSE LET m == Head(list) IN
         IF FailsAt(log, m.to, fc)
         THEN Append(log, [to |-> m.to, msg |-> m.msg, ok |-> FALSE])
         ELSE SendEach(Append(log, [to |-> m.to, msg |-> m.msg, ok |-> TRUE]),
                       Tail(list), fc)

LastFailed(log) == log # <<>> /\ ~log[Len(log)].ok

ToAll(msg) == [i \in 1 .. NumPlayers |-> [to |-> i - 1, msg |-> msg]]

\* send_state with the snapshot of the figures the step was handed
send_state_stale(figs) == ToAll(StateMsg(figures))

send_state(figs) == ToAll(StateMsg(figs))

indicate_players ==
    [n \in 1 .. (NumPlayers * NumPlayers) |->
        [to |-> (n - 1) \div NumPlayers,
         msg |-> IndicatePlayer((n - 1) % NumPlayers,
                                ((n - 1) % NumPlayers) = ((n - 1) \div NumPlayers))]]

NoFail == [fail |-> {}, after |-> 0]

\* cnt[p] is the largest number of sends a step of that arm makes to p: a
\* sink that takes cnt[p] sends did not fail in the step
FailChoices(cnt) ==
    {NoFail} \cup
    {fc \in {[fail |-> {p}, after |-> a] : p \in Players, a \in 0 .. 2} :
        \A p \in fc.fail : fc.after < cnt[p]}

\* StartTurn: Turn, Rolled and State to the active player, State to the others
StartTurnSends == [p \in Players |-> IF p = next_player THEN 3 ELSE 1]

\* Rolled: one State each
RolledSends == [p \in Players |-> 1]

\* MoveToNextTurn: PlayerDone and GameDone to each
MoveToNextTurnSends == [p \in Players |-> 2]

\* WaitingForReconnect: a sink that fails in the step of a rejoin fails
\* from its first send on
RejoinSends == [p \in Players |-> 1]

\* what the receiving half of a channel can deliver
RecvOutcomes ==
    {[type |-> t, figure |-> 0] : t \in {"Roll", "Close", "Err", "Other", "None", "BadText"}}
    \cup {[type |-> "Move", figure |-> f] : f \in 0 .. MaxFigureArg}

\* nothing was taken from the receiving half
NoMsg == [type |-> "-", figure |-> 0]

Min(S) == CHOOSE x \in S : \A y \in S : x <= y

\* every arm of step handing the turn to the following player
Result_advancing(st, figs, flags, np, rank, log, stat, drawn, recvd) ==
    [state |-> st, figures |-> figs, done |-> flags,
     next_player |-> (np + 1) % NumPlayers,
     ranking |-> rank, sent |-> log, status |-> stat, drawn |-> drawn,
     recvd |-> recvd]

\* the result of one arm of step
Result(st, figs, flags, np, rank, log, stat, drawn, recvd) ==
    [state |-> st, figures |-> figs, done |-> flags, next_player |-> np,
     ranking |-> rank, sent |-> log, status |-> stat, drawn |-> drawn,
     recvd |-> recvd]

\* recv_msg! suspending a fresh turn instead of the state it was handed
recv_msg_disconnect_fresh(prev_state) == WaitingForReconnect(StartTurn(0))

\* recv_msg! boxing the suspended state twice
recv_msg_disconnect_nested(prev_state) ==
    WaitingForReconnect(WaitingForReconnect(prev_state))

\* recv_msg!: the state returned when the channel errors or delivers Close
recv_msg_disconnect(prev_state) == WaitingForReconnect(prev_state)

\* the StartTurn arm never looks at the figure of a Move request
StartTurnInputs == {r \in RecvOutcomes : r.type = "Move" => r.figure = 0}

\* ------------------------------------------------- step, StartTurn arm
\* figure_startfield_index_res looking one square past the entry square
figure_startfield_index_res_next(figs) ==
    LET other_figures_instart == \E i \in FigIdx : figs[i].k = "InStart"
        hit == {i \in FigIdx : figs[i].k = "OnField" /\ figs[i].v = 1 /\ other_figures_instart}
    IN IF hit = {} THEN -1 ELSE Min(hit)

\* the first figure on the entry square while a figure waits in the start
\* (figure_startfield_index_res), -1 for None
figure_startfield_index_res(figs) ==
    LET other_figures_instart == \E i \in FigIdx : figs[i].k = "InStart"
        hit == {i \in FigIdx : figs[i].k = "OnField" /\ figs[i].v = 0 /\ other_figures_instart}
    IN IF hit = {} THEN -1 ELSE Min(hit)

\* step working for the first player whatever game.next_player
current_player_first == CHOOSE p \in Players : \A q \in Players : p <= q

\* `let current_player = game.players.get_mut(game.next_player)`
current_player == next_player

\* can_move without the test for a figure on the entry square
can_move_nojam(figs, value) ==
    /\ has_figures_on_field(figs)
    /\ ~(value = DieMax /\ has_figures_in_start(figs))

\* can_move without the test for a 6 that brings a figure out of the start
can_move_noentry(figs, value) ==
    LET other_figures_instart == \E i \in FigIdx : figs[i].k = "InStart"
    IN /\ has_figures_on_field(figs)
       /\ ~(\E i \in FigIdx :
               figs[i].k = "OnField" /\ figs[i].v = 0 /\ other_figures_instart)

\* the can_move flag of the Rolled reply
can_move(figs, value) ==
    LET other_figures_instart == \E i \in FigIdx : figs[i].k = "InStart"
    IN /\ has_figures_on_field(figs)
       /\ ~(value = DieMax /\ has_figures_in_start(figs))
       /\ ~(\E i \in FigIdx :
               figs[i].k = "OnField" /\ figs[i].v = 0 /\ other_figures_instart)

\* the jam branch handing the turn on whatever the value
after_jam_next(value) == MoveToNextTurn

\* the state returned after the figure on the entry square was moved
after_jam(value) == IF value = DieMax THEN StartTurn(0) ELSE MoveToNextTurn

\* find_map taking the last figure in the start
instart_index_last(figs) ==
    LET hit == {i \in FigIdx : figs[i].k = "InStart"}
    IN IF hit = {} THEN -1 ELSE CHOOSE i \in hit : \A j \in hit : i >= j

\* find_map over figures.iter().enumerate(): the first figure InStart,
\* -1 for None
instart_index(figs) ==
    LET hit == {i \in FigIdx : figs[i].k = "InStart"}
    IN IF hit = {} THEN -1 ELSE Min(hit)

\* the retry counting on past the third attempt
no_figure_next_unbounded(attempt) == StartTurn(attempt + 1)

\* the state returned when the value is not 6 and no figure is on the field
no_figure_next(attempt) ==
    IF attempt >= LastAttempt THEN MoveToNextTurn ELSE StartTurn(attempt + 1)

\* the `other` arm starting the attempts over
other_request_start_turn_reset(attempt) == StartTurn(0)

\* the `other` arm of the StartTurn match: the request is dropped
other_request_start_turn(attempt) == StartTurn(attempt)

start_turn(fc, rcv, value) ==
    LET cp == current_player
        figs == figures[cp]
        attempt == state.n
        Same(st, log, stat, drawn) ==
            Result(st, figures, done, next_player, ranking, log, stat, drawn, TRUE)
        s1 == SendEach(<<>>, <<[to |-> cp, msg |-> Turn]>>, fc)
        s2 == SendEach(s1, <<[to |-> cp, msg |-> RolledMsg(value, can_move(figs, value))]>>, fc)
        Moved(newfigs, st) ==
            LET f2 == check_move(newfigs, cp)
                s3 == SendEach(s2, send_state(f2), fc)
            IN IF LastFailed(s3)
               THEN Result(state, f2, done, next_player, ranking, s3, "panicked", 1, TRUE)
               ELSE Result(st, f2, done, next_player, ranking, s3, "running", 1, TRUE)
    IN
    IF LastFailed(s1)
    THEN Result(WaitingForReconnect(state), figures, done, next_player, ranking,
                s1, "running", 0, FALSE)
    ELSE IF rcv.type \in {"Close", "Err"}
    THEN Same(recv_msg_disconnect(state), s1, "running", 0)
    ELSE IF rcv.type \in {"Other", "None", "BadText"}
    THEN Same(state, s1, "panicked", 0)
    ELSE IF rcv.type = "Move" THEN Same(other_request_start_turn(attempt), s1, "running", 0)
    ELSE IF LastFailed(s2) THEN Same(state, s2, "running", 1)
    ELSE IF figure_startfield_index_res(figs) # -1
    THEN LET findex == figure_startfield_index_res(figs)
             mv == move_figure(figs, findex, value)
         IN Moved([figures EXCEPT ![cp] = mv.figs], after_jam(value))
    ELSE IF value = DieMax
    THEN IF instart_index(figs) # -1
         THEN LET index == instart_index(figs)
              IN Moved([figures EXCEPT ![cp][index] = OnField(0)], StartTurn(0))
         ELSE Same(Rolled(value), s2, "running", 1)
    ELSE IF has_figures_on_field(figs) THEN Same(Rolled(value), s2, "running", 1)
    ELSE Same(no_figure_next(attempt), s2, "running", 1)

\* ---------------------------------------------------- step, Rolled arm
\* the Move arm handing the turn on whatever the value
after_move_next(value, player_done) == MoveToNextTurn

\* the state returned after a Move request
after_move(value, player_done) ==
    IF value = DieMax /\ ~player_done THEN StartTurn(0) ELSE MoveToNextTurn

rolled(fc, rcv) ==
    LET cp == current_player
        value == state.n
        Same(st, stat) ==
            Result(st, figures, done, next_player, ranking, <<>>, stat, 0, TRUE)
    IN
    IF rcv.type \in {"Close", "Err"}
    THEN Same(recv_msg_disconnect(Rolled(value)), "running")
    ELSE IF rcv.type \in {"Other", "None", "BadText"} THEN Same(state, "panicked")
    ELSE IF rcv.type = "Roll" THEN Same(Rolled(value), "running")
    ELSE LET mv == move_figure(figures[cp], rcv.figure, value)
             cd == check_done(mv.figs, done[cp])
             f2 == check_move([figures EXCEPT ![cp] = mv.figs], cp)
             d2 == [done EXCEPT ![cp] = cd.done]
             s1 == SendEach(<<>>, send_state(f2), fc)
         IN IF LastFailed(s1)
            THEN Result(state, f2, d2, next_player, ranking, s1, "panicked", 0, TRUE)
            ELSE Result(after_move(value, cd.ret),
                        f2, d2, next_player, ranking, s1, "running", 0, TRUE)

\* -------------------------------------------- step, MoveToNextTurn arm
\* the loop breaking after its first increment, whatever the done flag
advance_next(np, flags, left) == (np + 1) % NumPlayers

\* the loop testing the player it starts from before it moves on
advance_from_self(np, flags, left) ==
    IF ~flags[np] THEN np ELSE (np + 1) % NumPlayers

\* the loop `for _ in 0..players.len()` that advances game.next_player
RECURSIVE advance(_, _, _)
advance(np, flags, left) ==
    IF left = 0 THEN np
    ELSE LET n == (np + 1) % NumPlayers IN
         IF ~flags[n] THEN n ELSE advance(n, flags, left - 1)

\* the test clearing the flag of the player it finds completed
player_just_done_clear(figs, flag) ==
    IF flag THEN [ret |-> FALSE, done |-> FALSE] ELSE check_done(figs, flag)

\* `!current_player.is_done() && current_player.check_done()`
player_just_done(figs, flag) ==
    IF flag THEN [ret |-> FALSE, done |-> flag] ELSE check_done(figs, flag)

move_to_next_turn(fc) ==
    LET cp == current_player
        cd == player_just_done(figures[cp], done[cp])
        d1 == [done EXCEPT ![cp] = cd.done]
        r1 == IF cd.ret THEN Append(ranking, cp) ELSE ranking
        s1 == IF cd.ret THEN SendEach(<<>>, ToAll(PlayerDone(cp)), fc) ELSE <<>>
    IN
    IF LastFailed(s1)
    THEN Result(state, figures, d1, next_player, r1, s1, "panicked", 0, FALSE)
    ELSE IF is_done(d1)
    THEN LET s2 == SendEach(s1, ToAll(GameDone(r1)), fc) IN
         IF LastFailed(s2)
         THEN Result(state, figures, d1, next_player, r1, s2, "panicked", 0, FALSE)
         ELSE Result(Done, figures, d1, next_player, r1, s2, "running", 0, FALSE)
    ELSE Result(StartTurn(0), figures, d1, advance(next_player, d1, NumPlayers),
                r1, s1, "running", 0, FALSE)

\* --------------------------------------- step, WaitingForReconnect arm
UnknownKey == 0

Keys == {UnknownKey} \cup {rejoin_code[p] : p \in Players}

\* the lookup falling back to the first player when no code matches
player_index_res_first(key) ==
    IF \E p \in Players : rejoin_code[p] = key
    THEN Min({p \in Players : rejoin_code[p] = key})
    ELSE 0

\* the lookup taking a known code for the code of the active player
player_index_res_active(key) ==
    IF \E p \in Players : rejoin_code[p] = key
    THEN next_player
    ELSE -1

\* find_map over players.iter().enumerate(): the first index with that code
player_index_res(key) ==
    IF \E p \in Players : rejoin_code[p] = key
    THEN Min({p \in Players : rejoin_code[p] = key})
    ELSE -1

\* the two broadcasts whose results are dropped with `let _ =`
rejoin_sends(fc) ==
    LET a == SendEach(<<>>, send_state(figures), fc)
        b == SendEach(a, indicate_players, fc)
    IN b

\* ------------------------------------------------------------ the session
Distinct(figs) ==
    \A i, j \in FigIdx : (i # j /\ figs[i] = figs[j]) => figs[i].k = "InStart"

NoSharedCell(allfigs) ==
    \A p, q \in Players : \A i, j \in FigIdx :
        (p # q /\ allfigs[p][i].k = "OnField" /\ allfigs[q][j].k = "OnField")
            => Cell(allfigs[p][i].v, p) # Cell(allfigs[q][j].v, q)

AllInHouse(figs) == \A i \in FigIdx : figs[i].k = "InHouse"

Arr(a, b, c, d) == [i \in FigIdx |-> CASE i = 0 -> a [] i = 1 -> b [] i = 2 -> c [] i = 3 -> d]

\* Positions a player's figures hold at the start of some turn of a game
\* played from GamePlayer::new: the fresh array, a figure on the entry
\* square, figures spread over start, field and house, one move from
\* completion, and completed.
Layouts ==
    { Arr(InStart, InStart, InStart, InStart),
      Arr(OnField(0), OnField(4), InStart, InStart),
      Arr(OnField(10), OnField(36), InStart, InHouse(2)),
      Arr(OnField(39), InHouse(1), InHouse(2), InHouse(3)),
      Arr(InHouse(0), InHouse(1), InHouse(2), InHouse(3)) }

\* Positions of a player whose only figure off the start is in the house:
\* at the end of the house, and with room to advance.
HouseLayouts ==
    { Arr(InStart, InHouse(3), InStart, InStart),
      Arr(InStart, InHouse(2), InStart, InStart) }

\* one figure in the start and three on the field far from the entry square
FieldLayouts ==
    { Arr(InStart, OnField(15), OnField(22), OnField(33)) }

\* The positions a session starts from: the active player holds one layout
\* and the other players share one.
Positions ==
    {pos \in {[figures |-> [p \in Players |-> IF p = a THEN mine ELSE theirs],
               next_player |-> a] :
                  a \in Players, mine \in Layouts \cup HouseLayouts \cup FieldLayouts,
                  theirs \in Layouts} :
        NoSharedCell(pos.figures) /\ ~AllInHouse(pos.figures[pos.next_player])}

Init ==
    /\ \E pos \in Positions : figures = pos.figures /\ next_player = pos.next_player
    /\ done = [p \in Players |-> AllInHouse(figures[p])]
    /\ rejoin_code = [p \in Players |-> p + 1]
    /\ replaced = {}
    /\ ranking = <<>>
    /\ rolls = 0
    /\ state \in {StartTurn(a) : a \in
                    IF has_figures_on_field(figures[next_player])
                    THEN {0} ELSE 0 .. LastAttempt}
    /\ status = "running"
    /\ sent = <<>>
    /\ last = [op |-> "new", rcv |-> NoMsg, value |-> 0, from |-> -1]

Apply(r) ==
    /\ state' = r.state
    /\ figures' = r.figures
    /\ done' = r.done
    /\ next_player' = r.next_player
    /\ ranking' = r.ranking
    /\ sent' = r.sent
    /\ status' = r.status
    /\ rolls' = rolls + r.drawn

StepStartTurn ==
    /\ status = "running"
    /\ state.tag = "StartTurn"
    /\ \E fc \in FailChoices(StartTurnSends), rcv \in StartTurnInputs, value \in Dice :
          \* without a Roll no value is drawn and only the Turn notice is sent
          /\ rcv.type # "Roll" => value = 1 /\ fc.after = 0 /\ fc.fail \subseteq {next_player}
          /\ LET r == start_turn(fc, rcv, value) IN
                /\ rolls + r.drawn <= MaxRolls
                /\ Apply(r)
                /\ last' = [op |-> "StartTurn",
                            rcv |-> IF r.recvd THEN rcv ELSE NoMsg,
                            value |-> IF r.drawn = 1 THEN value ELSE 0,
                            from |-> IF r.recvd THEN current_player ELSE -1]
    /\ replaced' = {}
    /\ UNCHANGED rejoin_code

StepRolled ==
    /\ status = "running"
    /\ state.tag = "Rolled"
    /\ \E fc \in FailChoices(RolledSends), rcv \in RecvOutcomes :
          \* only a Move makes the arm send
          /\ rcv.type # "Move" => fc = NoFail
          /\ Apply(rolled(fc, rcv))
          /\ last' = [op |-> "Rolled", rcv |-> rcv, value |-> state.n,
                      from |-> current_player]
    /\ replaced' = {}
    /\ UNCHANGED rejoin_code

StepMoveToNextTurn ==
    /\ status = "running"
    /\ state.tag = "MoveToNextTurn"
    /\ \E fc \in FailChoices(MoveToNextTurnSends) :
          /\ Apply(move_to_next_turn(fc))
          /\ last' = [op |-> "MoveToNextTurn", rcv |-> NoMsg, value |-> 0,
                      from |-> -1]
    /\ replaced' = {}
    /\ UNCHANGED rejoin_code

StepWaitingForReconnect ==
    /\ status = "running"
    /\ state.tag = "WaitingForReconnect"
    /\ \/ \* rejoin_rx.recv() yields None: todo!()
          /\ status' = "panicked"
          /\ sent' = <<>>
          /\ last' = [op |-> "WaitingForReconnect", key |-> -1]
          /\ replaced' = {}
          /\ UNCHANGED <<figures, done, rejoin_code, next_player,
                         ranking, rolls, state>>
       \/ \E key \in Keys :
             /\ last' = [op |-> "WaitingForReconnect", key |-> key]
             /\ LET player_index == player_index_res(key) IN
                   IF player_index = -1
                   THEN /\ state' = WaitingForReconnect(state.prev)
                        /\ sent' = <<>>
                        /\ replaced' = {}
                   ELSE \E fc \in FailChoices(RejoinSends) :
                           /\ replaced' = {player_index}
                           /\ sent' = rejoin_sends(fc)
                           /\ state' = state.prev
             /\ UNCHANGED <<figures, done, rejoin_code, next_player, ranking,
                            rolls, status>>

StepDone ==
    /\ status = "running"
    /\ state.tag = "Done"
    /\ status' = "ended"
    /\ sent' = <<>>
    /\ last' = [op |-> "Done", rcv |-> NoMsg, value |-> 0, from |-> -1]
    /\ replaced' = {}
    /\ UNCHANGED <<figures, done, rejoin_code, next_player,
                   ranking, rolls, state>>

Next ==
    \/ StepWaitingForReconnect
    \/ StepStartTurn
    \/ StepRolled
    \/ StepMoveToNextTurn
    \/ StepDone

Spec == Init /\ [][Next]_vars

\* ------------------------------------------- direct calls on drawn inputs
\* The arrays handed to move_figure, check_done and check_move: player 0
\* holds one of the base arrays with one figure put anywhere on the board,
\* the other players share one of the Layouts.
CallBases ==
    { Arr(InStart, InStart, InStart, InStart),
      Arr(OnField(3), InStart, InHouse(1), InHouse(3)),
      Arr(OnField(38), OnField(0), InHouse(2), InStart),
      Arr(InHouse(0), InHouse(1), InHouse(2), InHouse(3)) }

CallArrays ==
    {a \in {[b EXCEPT ![i] = x] : b \in CallBases, i \in FigIdx, x \in AllFigures} :
        Distinct(a)}

InitCalls ==
    /\ \E mine \in CallArrays \cup Layouts, theirs \in Layouts :
          figures = [p \in Players |-> IF p = 0 THEN mine ELSE theirs]
    /\ done = [p \in Players |-> FALSE]
    /\ rejoin_code = [p \in Players |-> p + 1]
    /\ replaced = {}
    /\ next_player = 0
    /\ ranking = <<>>
    /\ rolls = 0
    /\ state = StartTurn(0)
    /\ status = "running"
    /\ sent = <<>>
    /\ last = [op |-> "input", player |-> 0, index |-> 0, amount |-> 0,
                ret |-> FALSE, from |-> InStart]

\* players[p].move_figure(index, amount), once on the drawn input
CallMoveFigure ==
    /\ last.op = "input"
    /\ \E p \in Players, index \in 0 .. MaxFigureArg, amount \in Dice :
          LET mv == move_figure(figures[p], index, amount) IN
          /\ figures' = [figures EXCEPT ![p] = mv.figs]
          /\ last' = [op |-> "move_figure", player |-> p, index |-> index,
                      amount |-> amount, ret |-> mv.ok,
                      from |-> IF index \in FigIdx THEN figures[p][index] ELSE InStart]
    /\ UNCHANGED <<done, rejoin_code, replaced, next_player, ranking, rolls,
                   state, status, sent>>

\* players[p].has_moveable_figure(), once on the drawn input
CallHasMoveableFigure ==
    /\ last.op = "input"
    /\ \E p \in Players :
          last' = [op |-> "has_moveable_figure", player |-> p, index |-> 0,
                   amount |-> 0, ret |-> has_moveable_figure(figures[p]),
                   from |-> InStart]
    /\ UNCHANGED <<figures, done, rejoin_code, replaced, next_player, ranking,
                   rolls, state, status, sent>>

\* players[p].check_done()
CallCheckDone ==
    /\ \E p \in Players :
          LET cd == check_done(figures[p], done[p]) IN
          /\ done' = [done EXCEPT ![p] = cd.done]
          /\ last' = [op |-> "check_done", player |-> p, index |-> 0,
                      amount |-> 0, ret |-> cd.ret, from |-> done[p]]
    /\ UNCHANGED <<figures, rejoin_code, replaced, next_player, ranking, rolls,
                   state, status, sent>>

\* game.check_move(p)
CallCheckMove ==
    /\ \E p \in Players :
          /\ figures' = check_move(figures, p)
          /\ last' = [op |-> "check_move", player |-> p, index |-> 0,
                      amount |-> 0, ret |-> (check_move(figures, p) # figures),
                      from |-> InStart]
    /\ UNCHANGED <<done, rejoin_code, replaced, next_player, ranking, rolls,
                   state, status, sent>>

\* Game::new_with_rng(id, players, rng), on the same arguments at every
\* call: the players start with four figures InStart and the first active
\* player is drawn from rand::thread_rng(), not from the rng handed in
CallNewWithRng ==
    /\ last.op \in {"input", "new_with_rng"}
    /\ figures' = [p \in Players |-> Arr(InStart, InStart, InStart, InStart)]
    /\ done' = [p \in Players |-> FALSE]
    /\ ranking' = <<>>
    /\ next_player' \in Players
    /\ last' = [op |-> "new_with_rng", player |-> 0, index |-> 0, amount |-> 0,
                ret |-> FALSE, from |-> InStart]
    /\ UNCHANGED <<rejoin_code, replaced, rolls, state, status, sent>>

NextCalls ==
    \/ CallNewWithRng
    \/ CallMoveFigure
    \/ CallHasMoveableFigure
    \/ CallCheckDone
    \/ CallCheckMove

SpecCalls == InitCalls /\ [][NextCalls]_vars

\* ================================================================ claims
\* The target the movement rules give a figure: forward on the field while
\* the sum stays below 40, into the house for 40..43, forward in the house
\* while the sum stays below 4, and the prior state in every other case.
ExpectedTarget(f, a) ==
    IF f.k = "OnField" /\ f.v + a < 40 THEN OnField(f.v + a)
    ELSE IF f.k = "OnField" /\ f.v + a >= 40 /\ f.v + a < 44 THEN InHouse(f.v + a - 40)
    ELSE IF f.k = "InHouse" /\ f.v + a < 4 THEN InHouse(f.v + a)
    ELSE f

InRange(f) ==
    \/ f.k = "InStart"
    \/ f.k = "OnField" /\ f.v >= 0 /\ f.v < 40
    \/ f.k = "InHouse" /\ f.v >= 0 /\ f.v < 4

\* C1: move_figure(index, amount) with amount in 1..6 leaves the figure
\* either in its prior state or in the target of the movement rules
\* (OnField(s+a) below 40, InHouse(s+a-40) for 40..43, InHouse(p+a) below 4);
\* a figure InStart and every overshoot stay where they were and the call
\* returns None; when no figure of the player holds the target the figure
\* ends in the target; no figure ever becomes OnField(>= 40) or InHouse(>= 4).
C1_MoveFigureRules ==
    [][(last'.op = "move_figure" /\ last'.index \in FigIdx) =>
          LET p == last'.player
              i == last'.index
              f == figures[p][i]
              g == figures'[p][i]
              t == ExpectedTarget(f, last'.amount)
          IN /\ InRange(g)
             /\ g \in {f, t}
             /\ last'.ret => (g = t /\ t # f)
             /\ (t = f) => (~last'.ret /\ g = f)
             /\ (\A j \in FigIdx : figures[p][j] # t) => (last'.ret /\ g = t)
             /\ \A j \in FigIdx : j # i => figures'[p][j] = figures[p][j]]_vars

\* a figure was moved from the field into the house
C1_Witness ==
    /\ last.op = "move_figure"
    /\ last.ret
    /\ last.from.k = "OnField"
    /\ figures[last.player][last.index] = InHouse(last.from.v + last.amount - 40)

\* C2: when the target of move_figure(index, amount) is already held by a
\* figure of the same player (the moved figure included), the call returns
\* None and the figures of every player are unchanged; after a successful
\* call no other figure of the player is in the state of the moved figure.
C2_SelfCollision ==
    [][last'.op = "move_figure" =>
          LET p == last'.player
              i == last'.index
          IN /\ (i \in FigIdx /\ \E j \in FigIdx :
                     figures[p][j] = ExpectedTarget(figures[p][i], last'.amount))
                  => (~last'.ret /\ figures' = figures)
             /\ ~last'.ret => figures' = figures
             /\ last'.ret => \A j \in FigIdx : j # i => figures'[p][j] # figures'[p][i]]_vars

\* a move was refused because another figure of the player holds the target
C2_Witness ==
    /\ last.op = "move_figure"
    /\ ~last.ret
    /\ last.index \in FigIdx
    /\ ExpectedTarget(last.from, last.amount) # last.from
    /\ \E j \in FigIdx : /\ j # last.index
                         /\ figures[last.player][j] = ExpectedTarget(last.from, last.amount)

\* C3: check_move(A) resets to InStart exactly the OnField figures of the
\* players B # A whose board cell (moved + 10 * B) mod 40 is the board cell
\* of an OnField figure of A; every other figure, and every figure of A,
\* is unchanged.
C3_Capture ==
    [][last'.op = "check_move" =>
          LET A == last'.player
              Hit(B, i) ==
                  /\ B # A
                  /\ figures[B][i].k = "OnField"
                  /\ \E j \in FigIdx :
                        /\ figures[A][j].k = "OnField"
                        /\ (figures[B][i].v + 10 * B) % 40 = (figures[A][j].v + 10 * A) % 40
          IN \A B \in Players : \A i \in FigIdx :
                figures'[B][i] = IF Hit(B, i) THEN InStart ELSE figures[B][i]]_vars

\* a call of check_move reset a figure
C3_Witness ==
    /\ last.op = "check_move"
    /\ last.ret
    /\ \E B \in Players \ {last.player} : has_figures_in_start(figures[B])

\* a step of the state machine ran and returned
Stepped(arm) == last'.op = arm /\ state.tag = arm /\ status = "running"

\* C4 (as claimed): in every state step is handed or returns, whatever the
\* turn state, next_player indexes a player that is not completed, unless
\* every player is completed.
C4_ActiveNotCompleted ==
    (status # "panicked" /\ \E p \in Players : ~done[p]) => ~done[next_player]

\* C4 (amended): in every state step is handed or returns whose turn state
\* is not MoveToNextTurn, next_player indexes a player that is not completed,
\* unless every player is completed.
C4_ActiveNotCompletedOutsideAdvance ==
    (status # "panicked" /\ state.tag # "MoveToNextTurn" /\ \E p \in Players : ~done[p])
        => ~done[next_player]

\* a MoveToNextTurn step chose the active player while some player is completed
C4_Witness ==
    /\ status = "running"
    /\ last.op = "MoveToNextTurn"
    /\ state = StartTurn(0)
    /\ \E p \in Players : done[p]
    /\ ~done[next_player]

\* C5: a MoveToNextTurn step that finds the active player completed in the
\* turn that just ended appends its index to ranking and sends PlayerDone
\* with that index to every player.
C5_CompletionRanked ==
    [][(Stepped("MoveToNextTurn") /\ status' = "running" /\ done[next_player]) =>
          /\ ranking' = Append(ranking, next_player)
          /\ \A p \in Players : \E k \in 1 .. Len(sent') :
                sent'[k].to = p /\ sent'[k].msg = PlayerDone(next_player)]_vars

\* C6: the MoveToNextTurn step that enters Done appends exactly the index of
\* the player that finished last, sends PlayerDone before GameDone, and its
\* GameDone carries the whole ranking: every player index exactly once.
C6_GameDoneRanking ==
    [][(Stepped("MoveToNextTurn") /\ status' = "running" /\ state' = Done) =>
          /\ ranking' = Append(ranking, next_player)
          /\ \E i, j \in 1 .. Len(sent') :
                /\ i < j
                /\ sent'[i].msg = PlayerDone(next_player)
                /\ sent'[j].msg = GameDone(ranking')
          /\ \A p \in Players :
                Cardinality({i \in 1 .. Len(ranking') : ranking'[i] = p}) = 1]_vars

C9_SuspendAndResume ==
    [][/\ ((Stepped("StartTurn") \/ Stepped("Rolled")) /\ last'.rcv.type \in {"Close", "Err"})
            => /\ state' = WaitingForReconnect(state)
               /\ status' = "running"
               /\ UNCHANGED <<figures, done, next_player, ranking>>
       /\ (Stepped("WaitingForReconnect") /\ \E p \in Players : rejoin_code[p] = last'.key)
            => /\ state' = state.prev
               /\ state'.tag \in {"StartTurn", "Rolled"}
               /\ status' = "running"
               /\ UNCHANGED <<figures, done, next_player, ranking>>]_vars

\* a rejoin resumed a Rolled state, which only a disconnect suspends
C9_Witness ==
    /\ last.op = "WaitingForReconnect"
    /\ \E p \in Players : rejoin_code[p] = last.key
    /\ state.tag = "Rolled"
    /\ status = "running"

\* C10: a rejoin event whose key is no player's rejoin code leaves the
\* machine in WaitingForReconnect with the same suspended state, assigns no
\* player's channel and changes no figure, done flag, active player or
\* ranking; the machine
\* leaves WaitingForReconnect only in a step whose event carries the code
\* of a player.
C10_UnknownKeyIgnored ==
    [][/\ (Stepped("WaitingForReconnect") /\ last'.key \in Keys
               /\ \A p \in Players : rejoin_code[p] # last'.key)
            => /\ state' = state
               /\ replaced' = {}
               /\ UNCHANGED <<figures, done, next_player, ranking, rejoin_code>>
       /\ (state.tag = "WaitingForReconnect" /\ state'.tag # "WaitingForReconnect")
            => \E p \in Players : rejoin_code[p] = last'.key]_vars

\* an event with an unknown key was taken and the machine still waits
C10_Witness ==
    /\ last.op = "WaitingForReconnect"
    /\ last.key = UnknownKey
    /\ state.tag = "WaitingForReconnect"
    /\ status = "running"

\* C11: no sequence of disconnects, failed sends and requests puts the
\* session into a fatal state: a step that took a Roll or a Move request
\* from the active player never ends in a panic, whichever sends of its
\* State broadcast fail.
C11_NoFatalState ==
    ~(/\ status = "panicked"
      /\ last.op \in {"StartTurn", "Rolled"}
      /\ last.rcv.type \in {"Roll", "Move"})

\* the message is sent to every player alike
Broadcast(msg) == msg.type \in {"State", "PlayerDone", "GameDone"}

\* C12: a broadcast attempts delivery to every player in player order: after
\* a failed delivery of a broadcast message to one player the same message
\* is still sent to every player after that one.
C12_BroadcastReachesAll ==
    \A j \in 1 .. Len(sent) :
        (Broadcast(sent[j].msg) /\ ~sent[j].ok)
            => \A q \in Players : q > sent[j].to
                  => \E k \in (j + 1) .. Len(sent) :
                        sent[k].to = q /\ sent[k].msg = sent[j].msg

\* C13: a StartTurn step in which a send to the active player fails (the
\* Turn notice or the Rolled reply) returns WaitingForReconnect wrapping
\* StartTurn{attempt} with the attempt it was handed, and changes no figure,
\* active player or ranking.
C13_FailedSendSuspends ==
    [][(/\ last'.op = "StartTurn" /\ state.tag = "StartTurn"
        /\ LastFailed(sent')
        /\ sent'[Len(sent')].to = next_player
        /\ sent'[Len(sent')].msg.type \in {"Turn", "Rolled"})
          => /\ state' = WaitingForReconnect(StartTurn(state.n))
             /\ figures' = figures
             /\ next_player' = next_player
             /\ ranking' = ranking]_vars

\* the turn state, or the turn state a suspension holds, has attempt <= 2
AttemptBound(st) ==
    /\ st.tag = "StartTurn" => st.n <= LastAttempt
    /\ st.tag = "WaitingForReconnect" =>
          (st.prev.tag = "StartTurn" => st.prev.n <= LastAttempt)

\* a StartTurn step took a Roll, drew a value and delivered the Rolled reply
RollAnswered ==
    /\ Stepped("StartTurn")
    /\ last'.rcv.type = "Roll"
    /\ last'.value \in Dice
    /\ \E k \in 1 .. Len(sent') :
          sent'[k].ok /\ sent'[k].msg.type = "Rolled" /\ sent'[k].to = next_player

\* C14: in StartTurn{attempt}, when all four figures of the active player
\* are InStart and a Roll yields a value other than 6, no figure changes and
\* the next state is StartTurn{attempt+1} if attempt < 2 and MoveToNextTurn
\* if attempt = 2; attempt exceeds 2 in no reachable state.
C14_ThreeAttempts ==
    /\ [](AttemptBound(state))
    /\ [][(/\ RollAnswered
           /\ \A i \in FigIdx : figures[next_player][i] = InStart
           /\ last'.value # DieMax)
             => /\ figures' = figures
                /\ next_player' = next_player
                /\ state' = IF state.n < 2 THEN StartTurn(state.n + 1)
                                           ELSE MoveToNextTurn]_vars

\* the third attempt of a player with every figure InStart ended the turn
C14_Witness ==
    /\ last.op = "StartTurn"
    /\ last.rcv.type = "Roll"
    /\ last.value \in Dice \ {DieMax}
    /\ state = MoveToNextTurn
    /\ status = "running"
    /\ \A i \in FigIdx : figures[next_player][i] = InStart

\* after holds before with exactly the figures of the players other than A
\* reset to InStart that stood on the board cell of an OnField figure of A
CapturesResolved(before, after, A) ==
    \A B \in Players \ {A} : \A i \in FigIdx :
        after[B][i] =
            IF /\ before[B][i].k = "OnField"
               /\ \E j \in FigIdx :
                     /\ after[A][j].k = "OnField"
                     /\ (before[B][i].v + 10 * B) % 40 = (after[A][j].v + 10 * A) % 40
            THEN InStart
            ELSE before[B][i]

\* every player was sent the State message of figs
StateBroadcast(log, figs) ==
    \A q \in Players : \E k \in 1 .. Len(log) :
        log[k].to = q /\ log[k].ok /\ log[k].msg = [type |-> "State", players |-> figs]

\* the active player has a figure InStart and a figure at OnField(0)
StartJam ==
    /\ \E i \in FigIdx : figures[next_player][i] = InStart
    /\ \E i \in FigIdx : figures[next_player][i] = OnField(0)

\* C15 (as claimed): in a start jam a Roll of value v moves the OnField(0)
\* figure to OnField(v), moves no figure out of the start, resolves the
\* captures of the active player, broadcasts the state, and the next state
\* is StartTurn{0} if v = 6 and MoveToNextTurn otherwise.
C15_StartJam ==
    [][(RollAnswered /\ StartJam /\ status' = "running")
          => LET cp == next_player
                 v == last'.value
             IN /\ \A i \in FigIdx :
                      figures'[cp][i] = IF figures[cp][i] = OnField(0) THEN OnField(v)
                                        ELSE figures[cp][i]
                /\ CapturesResolved(figures, figures', cp)
                /\ StateBroadcast(sent', figures')
                /\ next_player' = cp
                /\ state' = IF v = 6 THEN StartTurn(0) ELSE MoveToNextTurn]_vars

\* C15 (amended): in a start jam a Roll of value v moves the OnField(0)
\* figure to OnField(v) unless a figure of the active player already stands
\* on OnField(v), in which case no figure of that player changes; no figure
\* leaves the start, the captures of the active player are resolved, the
\* state is broadcast, and the next state is StartTurn{0} if v = 6 and
\* MoveToNextTurn otherwise.
C15_StartJamUnlessBlocked ==
    [][(RollAnswered /\ StartJam /\ status' = "running")
          => LET cp == next_player
                 v == last'.value
                 blocked == \E j \in FigIdx : figures[cp][j] = OnField(v)
             IN /\ \A i \in FigIdx :
                      figures'[cp][i] = IF figures[cp][i] = OnField(0) /\ ~blocked
                                        THEN OnField(v)
                                        ELSE figures[cp][i]
                /\ CapturesResolved(figures, figures', cp)
                /\ StateBroadcast(sent', figures')
                /\ next_player' = cp
                /\ state' = IF v = 6 THEN StartTurn(0) ELSE MoveToNextTurn]_vars

\* a jam was rolled on with the value that leads onto the player's own
\* figure: the figure kept the entry square and the turn went on
C15_Witness ==
    /\ last.op = "StartTurn"
    /\ last.rcv.type = "Roll"
    /\ last.value = 4
    /\ state = MoveToNextTurn
    /\ status = "running"
    /\ \E i, j \in FigIdx : /\ figures[next_player][i] = OnField(0)
                             /\ figures[next_player][j] = OnField(4)
    /\ StateBroadcast(sent, figures)

\* C16: in StartTurn, when the roll is 6 and the active player has a figure
\* InStart and none at OnField(0), exactly one figure of that player
\* changes, the lowest-indexed InStart figure becoming OnField(0); the
\* captures of the active player are resolved, the state is broadcast, the
\* active player is unchanged and the next state is StartTurn{0}.
C16_EnterPlay ==
    [][(/\ RollAnswered /\ status' = "running"
        /\ last'.value = 6
        /\ \E i \in FigIdx : figures[next_player][i] = InStart
        /\ \A i \in FigIdx : figures[next_player][i] # OnField(0))
          => LET cp == next_player
                 first == CHOOSE i \in FigIdx :
                             /\ figures[cp][i] = InStart
                             /\ \A j \in FigIdx : j < i => figures[cp][j] # InStart
             IN /\ \A i \in FigIdx :
                      figures'[cp][i] = IF i = first THEN OnField(0) ELSE figures[cp][i]
                /\ CapturesResolved(figures, figures', cp)
                /\ StateBroadcast(sent', figures')
                /\ next_player' = cp
                /\ state' = StartTurn(0)]_vars

\* a 6 brought a figure onto the entry square while another stays InStart
C16_Witness ==
    /\ last.op = "StartTurn"
    /\ last.rcv.type = "Roll"
    /\ last.value = 6
    /\ state = StartTurn(0)
    /\ status = "running"
    /\ \E i, j \in FigIdx : /\ i < j
                             /\ figures[next_player][i] = OnField(0)
                             /\ figures[next_player][j] = InStart
    /\ StateBroadcast(sent, figures)

\* move_figure(i, v) on figs is legal: the index names a figure, the
\* movement rules give it a new state, and no figure of the player holds it
LegalMove(figs, i, v) ==
    /\ i \in FigIdx
    /\ ExpectedTarget(figs[i], v) # figs[i]
    /\ \A j \in FigIdx : figs[j] # ExpectedTarget(figs[i], v)

\* a Rolled step took a Move request and returned
MoveAnswered == Stepped("Rolled") /\ last'.rcv.type = "Move"

C18_IllegalMoveKeepsTurn ==
    [][(MoveAnswered /\ ~LegalMove(figures[next_player], last'.rcv.figure, state.n))
          => (state' = state /\ next_player' = next_player)]_vars

\* the figures, done flags, active player and ranking are left alone and no
\* value is drawn
NothingPlayed ==
    /\ figures' = figures
    /\ done' = done
    /\ next_player' = next_player
    /\ ranking' = ranking
    /\ rolls' = rolls

\* C19: a Move received in StartTurn{attempt} yields StartTurn{attempt} and
\* a Roll received in Rolled{value} yields Rolled{value}; in both cases no
\* figure, done flag, active player or ranking changes and no value is drawn.
C19_UnexpectedIgnored ==
    [][/\ (Stepped("StartTurn") /\ last'.rcv.type = "Move")
            => (state' = StartTurn(state.n) /\ NothingPlayed)
       /\ (Stepped("Rolled") /\ last'.rcv.type = "Roll")
            => (state' = Rolled(state.n) /\ NothingPlayed)]_vars

\* a Move request arrived in the last attempt of a turn and the attempt stands
C19_Witness ==
    /\ last.op = "StartTurn"
    /\ last.rcv.type = "Move"
    /\ state = StartTurn(LastAttempt)
    /\ status = "running"
    /\ rolls = 0

\* the k-th player after p in cyclic order
After(p, k) == (p + k) % NumPlayers

\* C20: a MoveToNextTurn step that leaves some player not completed makes
\* the first not completed player strictly after the old active player in
\* cyclic order the active player (the old one itself when it is the only
\* one left) and returns StartTurn{0}; no completed player gets the turn.
C20_NextNotCompleted ==
    [][(Stepped("MoveToNextTurn") /\ status' = "running" /\ \E p \in Players : ~done'[p])
          => LET open == {k \in 1 .. NumPlayers : ~done'[After(next_player, k)]}
                 k0 == CHOOSE k \in open : \A m \in open : k <= m
             IN /\ next_player' = After(next_player, k0)
                /\ ~done'[next_player']
                /\ state' = StartTurn(0)]_vars

\* the turn passed over a completed player
C20_Witness ==
    /\ last.op = "MoveToNextTurn"
    /\ state = StartTurn(0)
    /\ status = "running"
    /\ ~done[next_player]
    /\ done[After(next_player, NumPlayers - 1)]

\* the GameDone messages of a log that went to player q
GameDoneTo(log, q) == {k \in 1 .. Len(log) : log[k].to = q /\ log[k].msg.type = "GameDone"}

\* C21: Done is reached only by a MoveToNextTurn step that leaves every
\* player completed, and that step sends GameDone to every player once; no
\* other step sends GameDone; a step in Done returns no next state, takes
\* no message and no rejoin event, sends nothing and changes nothing.
C21_DoneTerminal ==
    [][/\ (state'.tag = "Done" /\ state.tag # "Done")
            => /\ Stepped("MoveToNextTurn")
               /\ \A p \in Players : done'[p]
               /\ \A q \in Players : Cardinality(GameDoneTo(sent', q)) = 1
       /\ (\E q \in Players : GameDoneTo(sent', q) # {})
            => /\ Stepped("MoveToNextTurn")
               /\ status' = "running" => state' = Done
       /\ state.tag = "Done"
            => /\ status' = "ended"
               /\ sent' = <<>>
               /\ last'.rcv = NoMsg /\ last'.from = -1
               /\ replaced' = {}
               /\ UNCHANGED <<figures, done, next_player, ranking, rolls, state,
                              rejoin_code>>]_vars

\* the step in Done returned None
C21_Witness ==
    /\ state = Done
    /\ status = "ended"
    /\ last.op = "Done"
    /\ \A p \in Players : done[p]

\* C22 (as claimed): the can_move flag of every Rolled reply is true iff the
\* active player has a figure OnField or InHouse and is not in a start jam
\* (a figure InStart together with a figure at OnField(0)).
C22_CanMove ==
    [][\A k \in 1 .. Len(sent') :
          sent'[k].msg.type = "Rolled"
             => (sent'[k].msg.can_move <=>
                   /\ \E i \in FigIdx : figures[next_player][i].k \in {"OnField", "InHouse"}
                   /\ ~StartJam)]_vars

\* C22 (amended): the can_move flag of every Rolled reply is true iff the
\* active player has a figure OnField or InHouse, is not in a start jam,
\* and the value is not a 6 rolled while a figure is InStart.
C22_CanMoveUnlessEntering ==
    [][\A k \in 1 .. Len(sent') :
          sent'[k].msg.type = "Rolled"
             => (sent'[k].msg.can_move <=>
                   /\ \E i \in FigIdx : figures[next_player][i].k \in {"OnField", "InHouse"}
                   /\ ~StartJam
                   /\ ~(/\ sent'[k].msg.value = 6
                        /\ \E i \in FigIdx : figures[next_player][i] = InStart))]_vars

\* a player with figures in play and no jam rolled the 6 that brings a
\* figure out of the start, and the reply said can_move = false
C22_Witness ==
    /\ last.op = "StartTurn"
    /\ state = StartTurn(0)
    /\ status = "running"
    /\ \E k \in 1 .. Len(sent) :
          sent[k].ok /\ sent[k].msg = [type |-> "Rolled", value |-> 6, can_move |-> FALSE]
    /\ \E i \in FigIdx : figures[next_player][i] = OnField(0)
    /\ \E i \in FigIdx : figures[next_player][i].k = "InHouse"

\* C23: whenever a StartTurn step returns Rolled{value}, some figure index i
\* of the active player has a move_figure(i, value) that would succeed.
C23_RolledHasLegalMove ==
    [][(Stepped("StartTurn") /\ state'.tag = "Rolled")
          => \E i \in FigIdx : LegalMove(figures'[next_player'], i, state'.n)]_vars

\* C24: in every step a figure leaves InStart only as OnField(0), of the
\* active player, in a StartTurn step whose roll is 6; an OnField figure's
\* steps never decrease; an InHouse figure stays InHouse and never lowers
\* its pos; a figure becomes InStart only from OnField, as a figure of a
\* player other than the active one standing on the board cell of an
\* OnField figure of the active player.
C24_FigureLifecycle ==
    [][\A p \in Players : \A i \in FigIdx :
          LET f == figures[p][i]
              g == figures'[p][i]
          IN /\ (f = InStart /\ g # InStart)
                  => /\ g = OnField(0)
                     /\ p = next_player
                     /\ last'.op = "StartTurn" /\ last'.value = 6
             /\ (f.k = "OnField" /\ g.k = "OnField") => g.v >= f.v
             /\ f.k = "InHouse" => (g.k = "InHouse" /\ g.v >= f.v)
             /\ (f # InStart /\ g = InStart)
                  => /\ f.k = "OnField"
                     /\ p # next_player
                     /\ last'.op \in {"StartTurn", "Rolled"}
                     /\ \E j \in FigIdx :
                           /\ figures'[next_player][j].k = "OnField"
                           /\ (f.v + 10 * p) % 40
                                 = (figures'[next_player][j].v + 10 * next_player) % 40]_vars

\* a figure of a player whose turn it is not was sent back to the start by
\* the figure a 6 moved off the entry square
C24_Witness ==
    /\ last.op = "StartTurn"
    /\ last.value = 6
    /\ \E i \in FigIdx : figures[next_player][i] = OnField(6)
    /\ \E B \in Players \ {next_player} :
          figures[B] = Arr(OnField(10), InStart, InStart, InHouse(2))

\* C25: a player's done flag, once true, is true in every later state.
C25_DoneMonotonic ==
    [][\A p \in Players : done[p] => done'[p]]_vars

\* every player is still completed after the step that ended the game
C25_Witness ==
    /\ last.op = "MoveToNextTurn"
    /\ state = Done
    /\ \A p \in Players : done[p]
    /\ \E q \in Players : GameDoneTo(sent, q) # {}

\* no figure of figs is OnField and some figure is InHouse
OnlyHouseInPlay(figs) ==
    /\ \A i \in FigIdx : figs[i].k # "OnField"
    /\ \E i \in FigIdx : figs[i].k = "InHouse"

\* some InHouse figure of figs can be moved by some value of the die
HouseHasRoom(figs) ==
    \E i \in FigIdx : figs[i].k = "InHouse" /\ \E a \in 1 .. 6 : LegalMove(figs, i, a)

\* C26: when the only figures of the active player off the start are
\* InHouse figures that cannot advance, a roll other than 6 is a failed
\* attempt: StartTurn{attempt} goes to StartTurn{attempt+1} below 2 and to
\* MoveToNextTurn at 2, never to Rolled{value}, and no figure changes.
C26_StuckHouseIsFailedAttempt ==
    [][(/\ RollAnswered
        /\ OnlyHouseInPlay(figures[next_player])
        /\ ~HouseHasRoom(figures[next_player])
        /\ \E i \in FigIdx : figures[next_player][i] = InStart
        /\ last'.value # 6)
          => /\ state' = IF state.n < 2 THEN StartTurn(state.n + 1) ELSE MoveToNextTurn
             /\ figures' = figures]_vars

\* C27: when the active player has no OnField figure but an InHouse figure
\* with room to advance, a roll of a value v other than 6 leads to
\* Rolled{v} with no figure and no active player changed.
C27_HouseWithRoomRolls ==
    [][(/\ RollAnswered
        /\ OnlyHouseInPlay(figures[next_player])
        /\ HouseHasRoom(figures[next_player])
        /\ last'.value # 6)
          => /\ state' = Rolled(last'.value)
             /\ figures' = figures
             /\ next_player' = next_player]_vars

\* a player with one figure at InHouse(2) and three InStart rolled a 1
C27_Witness ==
    /\ last.op = "StartTurn"
    /\ last.value = 1
    /\ state = Rolled(1)
    /\ status = "running"
    /\ figures[next_player] = Arr(InStart, InHouse(2), InStart, InStart)

\* C28: every State snapshot a step sends holds the figures as they are at
\* the end of that step: the move, the captures and the completion check
\* are settled before the broadcast and nothing changes after it.
C28_SnapshotIsFinal ==
    [][\A k \in 1 .. Len(sent') :
          sent'[k].msg.type = "State" => sent'[k].msg.players = figures']_vars

\* the move that completed a player was broadcast with the final figures
C28_Witness ==
    /\ last.op = "Rolled"
    /\ last.rcv.type = "Move"
    /\ done[next_player]
    /\ AllInHouse(figures[next_player])
    /\ state = MoveToNextTurn
    /\ StateBroadcast(sent, figures)

\* C29: a StartTurn or a Rolled step takes at most one inbound message,
\* and only from the channel of the active player; a MoveToNextTurn or a
\* Done step takes none; a rejoin event is taken, and a channel replaced,
\* only by a step in WaitingForReconnect, which takes no inbound message.
C29_OneEventPerStep ==
    [][/\ last'.op \in {"StartTurn", "Rolled"}
            => /\ last'.from \in {-1, next_player}
               /\ last'.from = -1 <=> last'.rcv = NoMsg
       /\ last'.op \in {"MoveToNextTurn", "Done"}
            => (last'.from = -1 /\ last'.rcv = NoMsg)
       /\ (last'.op = "WaitingForReconnect" \/ replaced' # {})
            => /\ state.tag = "WaitingForReconnect"
               /\ DOMAIN last' = {"op", "key"}]_vars

\* the second player's Move request was taken in its own turn
C29_Witness ==
    /\ last.op = "Rolled"
    /\ last.rcv.type = "Move"
    /\ last.from = 1
    /\ next_player = 1
    /\ status = "running"

\* C30: two sessions created with the same players and the same injected
\* randomness source start with the same active player: a second call of
\* new_with_rng on the same arguments yields the next_player of the first.
C30_SameFirstPlayer ==
    [][(last.op = "new_with_rng" /\ last'.op = "new_with_rng")
          => (next_player' = next_player /\ figures' = figures)]_vars

\* one figure InStart and three OnField, none of them within a roll of the
\* entry square
OneStartThreeField(figs) ==
    /\ Cardinality({i \in FigIdx : figs[i].k = "InStart"}) = 1
    /\ \A i \in FigIdx : figs[i].k = "OnField" \/ figs[i].k = "InStart"
    /\ \A i \in FigIdx : figs[i].k = "OnField" => figs[i].v > DieMax

\* C31 as stated: with one figure InStart and three OnField far from the
\* entry square, a first roll other than 6 takes StartTurn{0} to
\* StartTurn{1}.
C31_FieldRollCountsAttempt ==
    [][(/\ RollAnswered
        /\ state = StartTurn(0)
        /\ OneStartThreeField(figures[next_player])
        /\ last'.value # DieMax)
          => state' = StartTurn(1)]_vars

\* C31, amended: with one figure InStart and three OnField far from the
\* entry square, a first roll of a value v other than 6 is answered with
\* can_move true and takes StartTurn{0} to Rolled{v}, with no figure
\* changed.
C31_FieldRollAwaitsMove ==
    [][(/\ RollAnswered
        /\ state = StartTurn(0)
        /\ OneStartThreeField(figures[next_player])
        /\ last'.value # DieMax)
          => /\ state' = Rolled(last'.value)
             /\ figures' = figures
             /\ \A k \in 1 .. Len(sent') :
                   sent'[k].msg.type = "Rolled" => sent'[k].msg.can_move]_vars

\* a player with one figure InStart and three far out on the field rolled
\* a 5 on the first attempt
C31_Witness ==
    /\ last.op = "StartTurn"
    /\ last.rcv.type = "Roll"
    /\ last.value = 5
    /\ state = Rolled(5)
    /\ status = "running"
    /\ OneStartThreeField(figures[next_player])

\* some figure of figs that is OnField or InHouse can be moved by some
\* value of the die
LegalMoveInPlay(figs) ==
    \E i \in FigIdx :
        /\ figs[i].k \in {"OnField", "InHouse"}
        /\ \E a \in Dice : LegalMove(figs, i, a)

\* the InHouse figures of figs hold the topmost slots of the house
PackedHouse(figs) ==
    LET n == Cardinality({i \in FigIdx : figs[i].k = "InHouse"})
    IN \A i \in FigIdx : figs[i].k = "InHouse" => figs[i].v >= HouseLen - n

\* C32: has_moveable_figure returns true if and only if some figure that
\* is OnField or InHouse has a value a in 1..6 for which move_figure would
\* succeed; it returns false when every figure is InStart and when no
\* figure is OnField and the InHouse figures hold the topmost slots.
C32_MoveableIffLegalMove ==
    [][last'.op = "has_moveable_figure"
          => LET figs == figures[last'.player] IN
             /\ last'.ret <=> LegalMoveInPlay(figs)
             /\ (\A i \in FigIdx : figs[i] = InStart) => ~last'.ret
             /\ ((\A i \in FigIdx : figs[i].k # "OnField") /\ PackedHouse(figs))
                   => ~last'.ret
             /\ figures' = figures]_vars

\* has_moveable_figure returned false for a player whose three figures off
\* the start hold the three topmost slots of the house
C32_Witness ==
    /\ last.op = "has_moveable_figure"
    /\ ~last.ret
    /\ figures[last.player] = Arr(InStart, InHouse(1), InHouse(2), InHouse(3))

\* C33: next_player changes only in a MoveToNextTurn step: a step in
\* StartTurn, Rolled, WaitingForReconnect or Done leaves it as it is,
\* whatever the roll, the request or the rejoin event.
C33_OnlyMoveToNextTurnAdvances ==
    [][/\ next_player' # next_player => Stepped("MoveToNextTurn")
       /\ (last'.op \in {"StartTurn", "Rolled", "WaitingForReconnect", "Done"})
             => next_player' = next_player]_vars

\* a MoveToNextTurn step between two players who both still play handed
\* the turn over after a roll
C33_Witness ==
    /\ last.op = "MoveToNextTurn"
    /\ state = StartTurn(0)
    /\ rolls = 1
    /\ \A p \in Players : ~done[p]

\* C34: a rejoin event with a known key replaces the channels of exactly
\* the player with that rejoin code, changes no figure, done flag, active
\* player, ranking or rejoin code, and resumes the suspended state, also
\* when the rejoining player is not the active player.
C34_RejoinReplacesOwner ==
    [][(Stepped("WaitingForReconnect") /\ \E p \in Players : rejoin_code[p] = last'.key)
          => /\ replaced' = {p \in Players : rejoin_code[p] = last'.key}
             /\ Cardinality(replaced') = 1
             /\ state' = state.prev
             /\ UNCHANGED <<figures, done, next_player, ranking, rejoin_code>>]_vars

\* a player other than the active one rejoined and the turn resumed
C34_Witness ==
    /\ last.op = "WaitingForReconnect"
    /\ \E p \in Players \ {next_player} :
          rejoin_code[p] = last.key /\ replaced = {p}
    /\ state.tag = "StartTurn"
    /\ status = "running"

\* C35: a Rolled step whose move_figure fails changes no figure of any
\* player (the capture resolution that follows resets nothing), no done
\* flag and no ranking entry.
C35_FailedMoveChangesNothing ==
    [][(/\ Stepped("Rolled")
        /\ last'.rcv.type = "Move"
        /\ ~move_figure(figures[next_player], last'.rcv.figure, state.n).ok)
          => /\ figures' = figures
             /\ done' = done
             /\ ranking' = ranking]_vars

\* a Move naming a figure InStart was refused while another player had a
\* figure on the field
C35_Witness ==
    /\ last.op = "Rolled"
    /\ last.rcv.type = "Move"
    /\ last.rcv.figure \in FigIdx
    /\ figures[next_player][last.rcv.figure] = InStart
    /\ \E B \in Players \ {next_player} : \E i \in FigIdx : figures[B][i].k = "OnField"
    /\ status = "running"

\* C36: in every state no two figures of one player are in the same
\* OnField or InHouse state, across entries to OnField(0), jam moves and
\* chosen moves.
C36_OwnFiguresDistinct ==
    \A p \in Players : Distinct(figures[p])

\* a 6 brought a figure to the entry square of a player with another
\* figure on the field
C36_Witness ==
    /\ last.op = "StartTurn"
    /\ last.value = 6
    /\ figures[next_player] = Arr(OnField(10), OnField(36), OnField(0), InHouse(2))

\* C37: in every state between steps no two OnField figures of different
\* players are on the same board cell (moved + 10 * player) mod 40.
C37_NoSharedCell ==
    NoSharedCell(figures)

\* a chosen move reached the cell of another player's figure, which went
\* back to the start
C37_Witness ==
    /\ last.op = "Rolled"
    /\ last.rcv.type = "Move"
    /\ \E B \in Players \ {next_player} :
          figures[B] = Arr(InStart, OnField(36), InStart, InHouse(2))

\* C38: the state suspended in WaitingForReconnect is StartTurn{attempt}
\* or Rolled{value}, never WaitingForReconnect, MoveToNextTurn or Done.
C38_SuspendedIsTurnState ==
    state.tag = "WaitingForReconnect" => state.prev.tag \in {"StartTurn", "Rolled"}

\* a Rolled state is suspended
C38_Witness ==
    /\ state.tag = "WaitingForReconnect"
    /\ state.prev.tag = "Rolled"
    /\ last.op = "Rolled"

\* C39: in every state between steps a player's done flag is true if and
\* only if its four figures are InHouse, and the figures of such a player
\* hold the InHouse positions 0, 1, 2 and 3.
C39_DoneIffAllInHouse ==
    \A p \in Players :
        /\ done[p] <=> AllInHouse(figures[p])
        /\ done[p] => {figures[p][i].v : i \in FigIdx} = 0 .. HouseLen - 1

\* the move that brought the last figure home set the flag of the player
C39_Witness ==
    /\ last.op = "Rolled"
    /\ last.value = 1
    /\ done[next_player]
    /\ \E i \in FigIdx : figures[next_player][i] = InHouse(0)
    /\ \E q \in Players : ~done[q]

\* C40: in a StartTurn step that handles a Roll and delivers its Rolled
\* reply, can_move is true if and only if the next state is Rolled{value};
\* when it is false the next state is StartTurn or MoveToNextTurn.
C40_CanMoveIffRolled ==
    [][(RollAnswered /\ status' = "running")
          => \A k \in 1 .. Len(sent') :
                sent'[k].msg.type = "Rolled"
                  => /\ sent'[k].msg.can_move <=> state' = Rolled(last'.value)
                     /\ ~sent'[k].msg.can_move
                           => state'.tag \in {"StartTurn", "MoveToNextTurn"}]_vars

\* a reply with can_move false was followed by the entry of a figure and a
\* new turn of the same player
C40_Witness ==
    /\ last.op = "StartTurn"
    /\ last.value = 6
    /\ state = StartTurn(0)
    /\ status = "running"
    /\ \E k \in 1 .. Len(sent) :
          sent[k].ok /\ sent[k].msg = RolledMsg(6, FALSE)
    /\ \E i \in FigIdx : figures[next_player][i] = OnField(0)

====
